---------------------------- MODULE Spec2Model ----------------------------
(***************************************************************************)
(* Virtual-quadrant augmentation of a p4est forest (src/p4est_virtual.c,   *)
(* 2D build, P4_TO_P8 undefined): p4est_virtual_new_ext and its two        *)
(* classifiers, p4est_virtual_destroy and p4est_virtual_ghost_new, as seen *)
(* by one rank of the parallel program.                                     *)
(*                                                                         *)
(* The inputs (forest, ghost layer, neighbour mesh) come from collaborators*)
(* outside this file.  They are drawn from a bounded family of partitioned *)
(* forests; the mesh and ghost layer of the observed rank are derived from *)
(* the forest so that neighbourhood is symmetric across elements and ranks.*)
(***************************************************************************)
EXTENDS Integers, Sequences, FiniteSets, TLC

(***************************************************************************)
(* Program constants (2D).                                                 *)
(***************************************************************************)
P4EST_FACES == 4
P4EST_CHILDREN == 4
P4EST_QMAXLEVEL == 29
P4EST_CONNECT_FACE == 21
P4EST_CONNECT_FULL == 22

(***************************************************************************)
(* Bounds of the model.                                                    *)
(***************************************************************************)
\* largest number of leaves of the whole forest
MaxQuads == 3
\* number of ranks (p4est->mpisize)
MpiSize == 2
\* leaves have levels in P4EST_QMAXLEVEL - LevelSpan .. P4EST_QMAXLEVEL
LevelSpan == 1

Ranks == 0 .. (MpiSize - 1)
Levels == (P4EST_QMAXLEVEL - LevelSpan) .. P4EST_QMAXLEVEL
LevelIdx == 0 .. P4EST_QMAXLEVEL
NumDirs == P4EST_FACES + P4EST_CHILDREN
Dirs == 0 .. (NumDirs - 1)
Btypes == {P4EST_CONNECT_FACE, P4EST_CONNECT_FULL}

\* no neighbourhood between a pair of leaves
NoLink == -1
\* directions in which a leaf sees a neighbour that follows it in the
\* space-filling curve: across face +x, or across corner +x+y
ForwardDirs == {1, 7}

(***************************************************************************)
(* Helpers on finite sets of integers.                                     *)
(***************************************************************************)
SetMin(S) == CHOOSE x \in S : \A y \in S : x <= y

RECURSIVE SortedSeq(_)
SortedSeq(S) ==
    IF S = {} THEN << >>
    ELSE LET m == SetMin(S) IN << m >> \o SortedSeq(S \ {m})

\* the 0-based index of x in the duplicate-free sequence s
IndexOf(s, x) == (CHOOSE i \in 1 .. Len(s) : s[i] = x) - 1

SeqRange(s) == {s[i] : i \in 1 .. Len(s)}

RECURSIVE SumOver(_, _)
SumOver(f, S) ==
    IF S = {} THEN 0
    ELSE LET x == CHOOSE y \in S : TRUE IN f[x] + SumOver(f, S \ {x})

(***************************************************************************)
(* The partitioned forest.  Leaves 0..n-1 in space-filling-curve order;    *)
(* owner is nondecreasing (contiguous partition); link[<<a,b>>], a < b, is  *)
(* the direction in which a sees b, or NoLink.                              *)
(***************************************************************************)
Pairs(n) == {p \in (0 .. (n - 1)) \X (0 .. (n - 1)) : p[1] < p[2]}

\* the direction opposite to d: face f^1, corner c^3
Opposite(d) ==
    IF d < P4EST_FACES
    THEN (IF d % 2 = 0 THEN d + 1 ELSE d - 1)
    ELSE P4EST_FACES + (P4EST_CHILDREN - 1 - (d - P4EST_FACES))

\* the direction in which leaf a sees leaf b, or NoLink
SeenIn(F, a, b) ==
    IF a = b THEN NoLink
    ELSE IF a < b THEN F.link[<< a, b >>]
    ELSE IF F.link[<< b, a >>] = NoLink THEN NoLink
    ELSE Opposite(F.link[<< b, a >>])

\* 2:1 balance: neighbouring leaves differ by at most one level
IsBalanced(F) ==
    \A p \in Pairs(F.n) :
        F.link[p] # NoLink =>
            /\ F.level[p[1]] - F.level[p[2]] <= 1
            /\ F.level[p[2]] - F.level[p[1]] <= 1

Forests ==
    UNION { { [n |-> n, owner |-> o, level |-> l, link |-> k, btype |-> bt] :
                o \in {f \in [0 .. (n - 1) -> Ranks] :
                          \A p \in Pairs(n) : f[p[1]] <= f[p[2]]},
                l \in [0 .. (n - 1) -> Levels],
                k \in [Pairs(n) -> {NoLink} \cup
                         {d \in ForwardDirs :
                             bt = P4EST_CONNECT_FULL \/ d < P4EST_FACES}] } :
            n \in 0 .. MaxQuads, bt \in Btypes }

(***************************************************************************)
(* The view of rank r: ghost layer and neighbour mesh.                     *)
(***************************************************************************)
OwnedOf(F, r) == SortedSeq({a \in 0 .. (F.n - 1) : F.owner[a] = r})

GhostsOf(F, r) ==
    SortedSeq({b \in 0 .. (F.n - 1) :
                 /\ F.owner[b] # r
                 /\ \E a \in 0 .. (F.n - 1) :
                       F.owner[a] = r /\ SeenIn(F, a, b) # NoLink})

\* local id on rank r of leaf b: owned ids first, then ghost ids
LocalId(F, r, b) ==
    IF F.owner[b] = r THEN IndexOf(OwnedOf(F, r), b)
    ELSE Len(OwnedOf(F, r)) + IndexOf(GhostsOf(F, r), b)

\* encoding of a neighbour: negative for a half-sized neighbour
Encoding(lq, ln) == IF ln > lq THEN -1 ELSE IF ln = lq THEN 0 ELSE 8

\* p4est_mesh_get_neighbors (qid, dir) on rank r: parallel lists of
\* quadrants (level), encodings and ids, here one record per neighbour
NeighborsOf(F, r, a, d) ==
    LET nb == SortedSeq({b \in 0 .. (F.n - 1) : SeenIn(F, a, b) = d})
    IN  [j \in 1 .. Len(nb) |->
            [qid |-> LocalId(F, r, nb[j]),
             level |-> F.level[nb[j]],
             enc |-> Encoding(F.level[a], F.level[nb[j]])]]

\* owned leaves of rank r that are ghosts of rank p, ascending
MirrorsFor(F, r, p) ==
    IF p = r THEN << >>
    ELSE SortedSeq({a \in 0 .. (F.n - 1) :
                      /\ F.owner[a] = r
                      /\ \E b \in 0 .. (F.n - 1) :
                            F.owner[b] = p /\ SeenIn(F, a, b) # NoLink})

RECURSIVE MirrorSlots(_, _, _)
MirrorSlots(F, r, p) ==
    IF p = 0 THEN << >>
    ELSE MirrorSlots(F, r, p - 1) \o MirrorsFor(F, r, p - 1)

\* all mirrors of rank r, ascending (ghost->mirrors)
AllMirrors(F, r) ==
    SortedSeq(UNION {SeqRange(MirrorsFor(F, r, p)) : p \in Ranks})

MeshOf(F, r, withpb) ==
    LET own == OwnedOf(F, r)
        gh == GhostsOf(F, r)
        slots == MirrorSlots(F, r, MpiSize)
        mir == AllMirrors(F, r)
    IN  [local_num_quadrants |-> Len(own),
         ghost_num_quadrants |-> Len(gh),
         btype |-> F.btype,
         mpisize |-> MpiSize,
         quad_level |-> [q \in 0 .. (Len(own) - 1) |-> F.level[own[q + 1]]],
         ghost_level |-> [g \in 0 .. (Len(gh) - 1) |-> F.level[gh[g + 1]]],
         ghost_to_proc |-> [g \in 0 .. (Len(gh) - 1) |-> F.owner[gh[g + 1]]],
         neighbors |-> [q \in 0 .. (Len(own) - 1) |->
                          [d \in Dirs |-> NeighborsOf(F, r, own[q + 1], d)]],
         has_parallel_boundary |-> withpb,
         parallel_boundary |->
             [q \in 0 .. (Len(own) - 1) |->
                 IF own[q + 1] \in SeqRange(mir)
                 THEN IndexOf(mir, own[q + 1]) ELSE -1],
         mirror_qid |->
             [s \in 0 .. (Len(slots) - 1) |-> IndexOf(own, slots[s + 1])],
         mirror_proc_offsets |->
             [p \in 0 .. MpiSize |-> Len(MirrorSlots(F, r, p))]]

(***************************************************************************)
(* p4est_virtual_t, p4est_virtual_ghost_t and the locals of the builders.  *)
(***************************************************************************)
ZeroPerLevel == [l \in LevelIdx |-> 0]

EmptyPerLevel == [l \in LevelIdx |-> << >>]

\* an array of n entries filled by memset (-1)
MinusOnes(n) == [i \in 0 .. (n - 1) |-> -1]

\* no p4est_virtual_t exists
NullVirtual ==
    [btype |-> 0, local_num_quadrants |-> 0, ghost_num_quadrants |-> 0,
     virtual_qflags |-> << >>, virtual_gflags |-> << >>,
     level_lists |-> FALSE,
     quad_qreal_offset |-> << >>, quad_qvirtual_offset |-> << >>,
     quad_greal_offset |-> << >>, quad_gvirtual_offset |-> << >>,
     virtual_qlevels |-> << >>, virtual_glevels |-> << >>]

\* no p4est_virtual_ghost_t exists
NullVirtualGhost == [btype |-> 0, mirror_proc_virtuals |-> << >>]

\* the locals before any builder runs
NullLocals ==
    [lq_per_level_real |-> << >>, lq_per_level_virt |-> << >>,
     gq_per_level_real |-> << >>, gq_per_level_virt |-> << >>,
     last_virtual_index |-> 0, quad |-> 0, proc |-> 0]

\* allocation that leaves the two virtual offset arrays zero-filled, as
\* P4EST_ALLOC_ZERO would, where the memset fills them with -1
AllocVirtual_ZeroFilledOffsets(m, btype, compute_level_lists) ==
    LET lq == m.local_num_quadrants
        gq == m.ghost_num_quadrants
    IN  [btype |-> btype,
         local_num_quadrants |-> lq,
         ghost_num_quadrants |-> gq,
         virtual_qflags |-> MinusOnes(lq),
         virtual_gflags |-> MinusOnes(gq),
         level_lists |-> compute_level_lists,
         quad_qreal_offset |->
             IF compute_level_lists THEN MinusOnes(lq) ELSE << >>,
         quad_qvirtual_offset |->
             IF compute_level_lists THEN [i \in 0 .. (lq - 1) |-> 0] ELSE << >>,
         quad_greal_offset |->
             IF compute_level_lists THEN MinusOnes(gq) ELSE << >>,
         quad_gvirtual_offset |->
             IF compute_level_lists THEN [i \in 0 .. (gq - 1) |-> 0] ELSE << >>,
         virtual_qlevels |->
             IF compute_level_lists THEN EmptyPerLevel ELSE << >>,
         virtual_glevels |->
             IF compute_level_lists THEN EmptyPerLevel ELSE << >>]

\* p4est_virtual_new_ext up to the first loop: allocation and memset.
\* level_lists stands for the pointer test virtual_quads->quad_qreal_offset.
AllocVirtual(m, btype, compute_level_lists) ==
    LET lq == m.local_num_quadrants
        gq == m.ghost_num_quadrants
    IN  [btype |-> btype,
         local_num_quadrants |-> lq,
         ghost_num_quadrants |-> gq,
         virtual_qflags |-> MinusOnes(lq),
         virtual_gflags |-> MinusOnes(gq),
         level_lists |-> compute_level_lists,
         quad_qreal_offset |->
             IF compute_level_lists THEN MinusOnes(lq) ELSE << >>,
         quad_qvirtual_offset |->
             IF compute_level_lists THEN MinusOnes(lq) ELSE << >>,
         quad_greal_offset |->
             IF compute_level_lists THEN MinusOnes(gq) ELSE << >>,
         quad_gvirtual_offset |->
             IF compute_level_lists THEN MinusOnes(gq) ELSE << >>,
         virtual_qlevels |->
             IF compute_level_lists THEN EmptyPerLevel ELSE << >>,
         virtual_glevels |->
             IF compute_level_lists THEN EmptyPerLevel ELSE << >>]

AllocLocals ==
    [lq_per_level_real |-> ZeroPerLevel, lq_per_level_virt |-> ZeroPerLevel,
     gq_per_level_real |-> ZeroPerLevel, gq_per_level_virt |-> ZeroPerLevel,
     last_virtual_index |-> -1, quad |-> 0, proc |-> 0]

\* the switch on btype: the number of directions to inspect
DirCount(btype) ==
    IF btype = P4EST_CONNECT_FACE THEN P4EST_FACES
    ELSE P4EST_FACES + P4EST_CHILDREN

(***************************************************************************)
(* The classifiers.  Each takes the mesh m, the structure v, the locals s  *)
(* and the set o of out-of-bounds accesses seen so far, and returns the    *)
(* three after the call.                                                   *)
(***************************************************************************)
\* LevelBookkeeping with the block of children left out of the real offset
LevelBookkeeping_NoChildrenBlock(v, s, o, qid, level, has_virtuals) ==
    LET v1 == IF v.level_lists
              THEN [v EXCEPT !.quad_qreal_offset[qid] =
                       s.lq_per_level_real[level] + s.lq_per_level_virt[level]]
              ELSE v
        s1 == IF v.level_lists
              THEN [s EXCEPT !.lq_per_level_real[level] = @ + 1]
              ELSE s
    IN  IF ~has_virtuals THEN [vq |-> v1, loc |-> s1, oob |-> o]
        ELSE
        LET s2 == [s1 EXCEPT !.last_virtual_index = @ + 1]
            v2 == [v1 EXCEPT !.virtual_qflags[qid] = s2.last_virtual_index]
        IN  IF ~v.level_lists THEN [vq |-> v2, loc |-> s2, oob |-> o]
            ELSE IF (level + 1) \notin LevelIdx
            THEN [vq |-> v2, loc |-> s2, oob |-> o \cup {"lq_per_level"}]
            ELSE [vq |-> [v2 EXCEPT
                            !.quad_qvirtual_offset[qid] =
                                s2.lq_per_level_real[level + 1] +
                                P4EST_CHILDREN * s2.lq_per_level_virt[level + 1],
                            !.virtual_qlevels[level + 1] = Append(@, qid)],
                  loc |-> [s2 EXCEPT !.lq_per_level_virt[level + 1] = @ + 1],
                  oob |-> o]

\* LevelBookkeeping with the virtual counter advanced before the virtual
\* offset is stored
LevelBookkeeping_CountBeforeStore(v, s, o, qid, level, has_virtuals) ==
    LET v1 == IF v.level_lists
              THEN [v EXCEPT !.quad_qreal_offset[qid] =
                       s.lq_per_level_real[level] +
                       P4EST_CHILDREN * s.lq_per_level_virt[level]]
              ELSE v
        s1 == IF v.level_lists
              THEN [s EXCEPT !.lq_per_level_real[level] = @ + 1]
              ELSE s
    IN  IF ~has_virtuals THEN [vq |-> v1, loc |-> s1, oob |-> o]
        ELSE
        LET s2 == [s1 EXCEPT !.last_virtual_index = @ + 1]
            v2 == [v1 EXCEPT !.virtual_qflags[qid] = s2.last_virtual_index]
        IN  IF ~v.level_lists THEN [vq |-> v2, loc |-> s2, oob |-> o]
            ELSE IF (level + 1) \notin LevelIdx
            THEN [vq |-> v2, loc |-> s2, oob |-> o \cup {"lq_per_level"}]
            ELSE LET s3 == [s2 EXCEPT !.lq_per_level_virt[level + 1] = @ + 1]
                 IN  [vq |-> [v2 EXCEPT
                                !.quad_qvirtual_offset[qid] =
                                    s3.lq_per_level_real[level + 1] +
                                    P4EST_CHILDREN * s3.lq_per_level_virt[level + 1],
                                !.virtual_qlevels[level + 1] = Append(@, qid)],
                      loc |-> s3,
                      oob |-> o]

\* LevelBookkeeping with the host appended to the list of its own level
LevelBookkeeping_ListAtOwnLevel(v, s, o, qid, level, has_virtuals) ==
    LET v1 == IF v.level_lists
              THEN [v EXCEPT !.quad_qreal_offset[qid] =
                       s.lq_per_level_real[level] +
                       P4EST_CHILDREN * s.lq_per_level_virt[level]]
              ELSE v
        s1 == IF v.level_lists
              THEN [s EXCEPT !.lq_per_level_real[level] = @ + 1]
              ELSE s
    IN  IF ~has_virtuals THEN [vq |-> v1, loc |-> s1, oob |-> o]
        ELSE
        LET s2 == [s1 EXCEPT !.last_virtual_index = @ + 1]
            v2 == [v1 EXCEPT !.virtual_qflags[qid] = s2.last_virtual_index]
        IN  IF ~v.level_lists THEN [vq |-> v2, loc |-> s2, oob |-> o]
            ELSE IF (level + 1) \notin LevelIdx
            THEN [vq |-> v2, loc |-> s2, oob |-> o \cup {"lq_per_level"}]
            ELSE [vq |-> [v2 EXCEPT
                            !.quad_qvirtual_offset[qid] =
                                s2.lq_per_level_real[level + 1] +
                                P4EST_CHILDREN * s2.lq_per_level_virt[level + 1],
                            !.virtual_qlevels[level] = Append(@, qid)],
                  loc |-> [s2 EXCEPT !.lq_per_level_virt[level + 1] = @ + 1],
                  oob |-> o]

\* LevelBookkeeping that numbers a host only when level lists are kept
LevelBookkeeping_FlagOnlyWithLists(v, s, o, qid, level, has_virtuals) ==
    LET v1 == IF v.level_lists
              THEN [v EXCEPT !.quad_qreal_offset[qid] =
                       s.lq_per_level_real[level] +
                       P4EST_CHILDREN * s.lq_per_level_virt[level]]
              ELSE v
        s1 == IF v.level_lists
              THEN [s EXCEPT !.lq_per_level_real[level] = @ + 1]
              ELSE s
    IN  IF ~has_virtuals \/ ~v.level_lists
        THEN [vq |-> v1, loc |-> s1, oob |-> o]
        ELSE
        LET s2 == [s1 EXCEPT !.last_virtual_index = @ + 1]
            v2 == [v1 EXCEPT !.virtual_qflags[qid] = s2.last_virtual_index]
        IN  IF (level + 1) \notin LevelIdx
            THEN [vq |-> v2, loc |-> s2, oob |-> o \cup {"lq_per_level"}]
            ELSE [vq |-> [v2 EXCEPT
                            !.quad_qvirtual_offset[qid] =
                                s2.lq_per_level_real[level + 1] +
                                P4EST_CHILDREN * s2.lq_per_level_virt[level + 1],
                            !.virtual_qlevels[level + 1] = Append(@, qid)],
                  loc |-> [s2 EXCEPT !.lq_per_level_virt[level + 1] = @ + 1],
                  oob |-> o]

\* the tail shared by both classifiers: offsets, flag and level list of qid
LevelBookkeeping(v, s, o, qid, level, has_virtuals) ==
    LET v1 == IF v.level_lists
              THEN [v EXCEPT !.quad_qreal_offset[qid] =
                       s.lq_per_level_real[level] +
                       P4EST_CHILDREN * s.lq_per_level_virt[level]]
              ELSE v
        s1 == IF v.level_lists
              THEN [s EXCEPT !.lq_per_level_real[level] = @ + 1]
              ELSE s
    IN  IF ~has_virtuals THEN [vq |-> v1, loc |-> s1, oob |-> o]
        ELSE
        LET s2 == [s1 EXCEPT !.last_virtual_index = @ + 1]
            v2 == [v1 EXCEPT !.virtual_qflags[qid] = s2.last_virtual_index]
        IN  IF ~v.level_lists THEN [vq |-> v2, loc |-> s2, oob |-> o]
            ELSE IF (level + 1) \notin LevelIdx
            THEN [vq |-> v2, loc |-> s2, oob |-> o \cup {"lq_per_level"}]
            ELSE [vq |-> [v2 EXCEPT
                            !.quad_qvirtual_offset[qid] =
                                s2.lq_per_level_real[level + 1] +
                                P4EST_CHILDREN * s2.lq_per_level_virt[level + 1],
                            !.virtual_qlevels[level + 1] = Append(@, qid)],
                  loc |-> [s2 EXCEPT !.lq_per_level_virt[level + 1] = @ + 1],
                  oob |-> o]

\* the loop of has_virtuals_inner from direction i on: stops at the first
\* direction holding a finer neighbour
RECURSIVE InnerScan(_, _, _, _, _)
InnerScan(m, qid, level, i, imax) ==
    IF i >= imax THEN FALSE
    ELSE LET nb == m.neighbors[qid][i]
         IN  IF \E j \in 1 .. Len(nb) : level < nb[j].level THEN TRUE
             ELSE InnerScan(m, qid, level, i + 1, imax)

\* has_virtuals_inner that inspects the faces only, whatever btype says
has_virtuals_inner_FacesOnly(m, v, s, o, qid) ==
    LET level == m.quad_level[qid]
    IN  LevelBookkeeping(v, s, o, qid, level,
                         InnerScan(m, qid, level, 0, P4EST_FACES))

has_virtuals_inner(m, v, s, o, qid) ==
    LET level == m.quad_level[qid]
        imax == DirCount(v.btype)
    IN  LevelBookkeeping(v, s, o, qid, level,
                         InnerScan(m, qid, level, 0, imax))

\* BoundaryVisit that takes a neighbour of the same level for a finer one
BoundaryVisit_SameLevelIsFiner(acc, n, level, lq, gq) ==
    IF level <= n.level THEN [acc EXCEPT !.hv = TRUE]
    ELSE IF (lq <= n.qid) /\ (n.qid <= (lq + gq)) /\ (n.level < level)
    THEN IF (n.qid - lq) \in DOMAIN acc.gflags
         THEN [acc EXCEPT !.gflags[n.qid - lq] = 1]
         ELSE [acc EXCEPT !.oob = @ \cup {"virtual_gflags"}]
    ELSE acc

\* BoundaryVisit that marks every ghost neighbour that is not finer
BoundaryVisit_MarksSameLevelGhost(acc, n, level, lq, gq) ==
    IF level < n.level THEN [acc EXCEPT !.hv = TRUE]
    ELSE IF (lq <= n.qid) /\ (n.qid <= (lq + gq)) /\ (n.level <= level)
    THEN IF (n.qid - lq) \in DOMAIN acc.gflags
         THEN [acc EXCEPT !.gflags[n.qid - lq] = 1]
         ELSE [acc EXCEPT !.oob = @ \cup {"virtual_gflags"}]
    ELSE acc

\* one neighbour of the boundary-mode loop; acc = [hv, gflags, oob]
BoundaryVisit(acc, n, level, lq, gq) ==
    IF level < n.level THEN [acc EXCEPT !.hv = TRUE]
    ELSE IF (lq <= n.qid) /\ (n.qid <= (lq + gq)) /\ (n.level < level)
    THEN IF (n.qid - lq) \in DOMAIN acc.gflags
         THEN [acc EXCEPT !.gflags[n.qid - lq] = 1]
         ELSE [acc EXCEPT !.oob = @ \cup {"virtual_gflags"}]
    ELSE acc

RECURSIVE BoundaryScanDir(_, _, _, _, _, _)
BoundaryScanDir(acc, nb, j, level, lq, gq) ==
    IF j > Len(nb) THEN acc
    ELSE BoundaryScanDir(BoundaryVisit(acc, nb[j], level, lq, gq),
                         nb, j + 1, level, lq, gq)

RECURSIVE BoundaryScan(_, _, _, _, _, _, _, _)
BoundaryScan(acc, m, qid, level, lq, gq, i, imax) ==
    IF i >= imax THEN acc
    ELSE BoundaryScan(BoundaryScanDir(acc, m.neighbors[qid][i], 1, level, lq, gq),
                      m, qid, level, lq, gq, i + 1, imax)

has_virtuals_parallel_boundary(m, v, s, o, qid) ==
    LET lq == v.local_num_quadrants
        gq == v.ghost_num_quadrants
        level == m.quad_level[qid]
        imax == DirCount(v.btype)
        acc == BoundaryScan([hv |-> FALSE, gflags |-> v.virtual_gflags, oob |-> o],
                            m, qid, level, lq, gq, 0, imax)
    IN  LevelBookkeeping([v EXCEPT !.virtual_gflags = acc.gflags], s, acc.oob,
                         qid, level, acc.hv)

\* the body of the first loop of p4est_virtual_new_ext for quadrant quad
ClassifyQuad(m, v, s, o, quad) ==
    IF m.has_parallel_boundary /\ m.parallel_boundary[quad] = -1
    THEN has_virtuals_inner(m, v, s, o, quad)
    ELSE has_virtuals_parallel_boundary(m, v, s, o, quad)

\* GhostPass that reads the counters of the owned elements
GhostPass_OwnedCounters(m, v, s, o, quad) ==
    LET level == m.ghost_level[quad]
        v1 == IF v.level_lists
              THEN [v EXCEPT !.quad_greal_offset[quad] =
                       s.lq_per_level_real[level] +
                       P4EST_CHILDREN * s.lq_per_level_virt[level]]
              ELSE v
        s1 == IF v.level_lists
              THEN [s EXCEPT !.lq_per_level_real[level] = @ + 1]
              ELSE s
    IN  IF v.virtual_gflags[quad] = -1 THEN [vq |-> v1, loc |-> s1, oob |-> o]
        ELSE
        LET v2 == [v1 EXCEPT !.virtual_gflags[quad] = s1.last_virtual_index]
            s2 == [s1 EXCEPT !.last_virtual_index = @ + 1]
        IN  IF ~v.level_lists THEN [vq |-> v2, loc |-> s2, oob |-> o]
            ELSE IF (level + 1) \notin LevelIdx
            THEN [vq |-> v2, loc |-> s2, oob |-> o \cup {"gq_per_level"}]
            ELSE [vq |-> [v2 EXCEPT
                            !.quad_gvirtual_offset[quad] =
                                s2.lq_per_level_real[level + 1] +
                                P4EST_CHILDREN * s2.lq_per_level_virt[level + 1],
                            !.virtual_glevels[level + 1] = Append(@, quad)],
                  loc |-> [s2 EXCEPT !.lq_per_level_virt[level + 1] = @ + 1],
                  oob |-> o]

\* GhostPass that leaves the marker of the first loop in virtual_gflags
GhostPass_KeepsMarker(m, v, s, o, quad) ==
    LET level == m.ghost_level[quad]
        v1 == IF v.level_lists
              THEN [v EXCEPT !.quad_greal_offset[quad] =
                       s.gq_per_level_real[level] +
                       P4EST_CHILDREN * s.gq_per_level_virt[level]]
              ELSE v
        s1 == IF v.level_lists
              THEN [s EXCEPT !.gq_per_level_real[level] = @ + 1]
              ELSE s
    IN  IF v.virtual_gflags[quad] = -1 THEN [vq |-> v1, loc |-> s1, oob |-> o]
        ELSE
        LET s2 == [s1 EXCEPT !.last_virtual_index = @ + 1]
        IN  IF ~v.level_lists THEN [vq |-> v1, loc |-> s2, oob |-> o]
            ELSE IF (level + 1) \notin LevelIdx
            THEN [vq |-> v1, loc |-> s2, oob |-> o \cup {"gq_per_level"}]
            ELSE [vq |-> [v1 EXCEPT
                            !.quad_gvirtual_offset[quad] =
                                s2.gq_per_level_real[level + 1] +
                                P4EST_CHILDREN * s2.gq_per_level_virt[level + 1],
                            !.virtual_glevels[level + 1] = Append(@, quad)],
                  loc |-> [s2 EXCEPT !.gq_per_level_virt[level + 1] = @ + 1],
                  oob |-> o]

\* GhostPass that tests the flag for truth, so that -1 counts as marked
GhostPass_TruthTest(m, v, s, o, quad) ==
    LET level == m.ghost_level[quad]
        v1 == IF v.level_lists
              THEN [v EXCEPT !.quad_greal_offset[quad] =
                       s.gq_per_level_real[level] +
                       P4EST_CHILDREN * s.gq_per_level_virt[level]]
              ELSE v
        s1 == IF v.level_lists
              THEN [s EXCEPT !.gq_per_level_real[level] = @ + 1]
              ELSE s
    IN  IF v.virtual_gflags[quad] = 0 THEN [vq |-> v1, loc |-> s1, oob |-> o]
        ELSE
        LET v2 == [v1 EXCEPT !.virtual_gflags[quad] = s1.last_virtual_index]
            s2 == [s1 EXCEPT !.last_virtual_index = @ + 1]
        IN  IF ~v.level_lists THEN [vq |-> v2, loc |-> s2, oob |-> o]
            ELSE IF (level + 1) \notin LevelIdx
            THEN [vq |-> v2, loc |-> s2, oob |-> o \cup {"gq_per_level"}]
            ELSE [vq |-> [v2 EXCEPT
                            !.quad_gvirtual_offset[quad] =
                                s2.gq_per_level_real[level + 1] +
                                P4EST_CHILDREN * s2.gq_per_level_virt[level + 1],
                            !.virtual_glevels[level + 1] = Append(@, quad)],
                  loc |-> [s2 EXCEPT !.gq_per_level_virt[level + 1] = @ + 1],
                  oob |-> o]

\* GhostPass that counts the block of a marked ghost as one slot where
\* the offsets count P4EST_CHILDREN slots for it
GhostPass_BlockOfOne(m, v, s, o, quad) ==
    LET level == m.ghost_level[quad]
        v1 == IF v.level_lists
              THEN [v EXCEPT !.quad_greal_offset[quad] =
                       s.gq_per_level_real[level] + s.gq_per_level_virt[level]]
              ELSE v
        s1 == IF v.level_lists
              THEN [s EXCEPT !.gq_per_level_real[level] = @ + 1]
              ELSE s
    IN  IF v.virtual_gflags[quad] = -1 THEN [vq |-> v1, loc |-> s1, oob |-> o]
        ELSE
        LET v2 == [v1 EXCEPT !.virtual_gflags[quad] = s1.last_virtual_index]
            s2 == [s1 EXCEPT !.last_virtual_index = @ + 1]
        IN  IF ~v.level_lists THEN [vq |-> v2, loc |-> s2, oob |-> o]
            ELSE IF (level + 1) \notin LevelIdx
            THEN [vq |-> v2, loc |-> s2, oob |-> o \cup {"gq_per_level"}]
            ELSE [vq |-> [v2 EXCEPT
                            !.quad_gvirtual_offset[quad] =
                                s2.gq_per_level_real[level + 1] +
                                s2.gq_per_level_virt[level + 1],
                            !.virtual_glevels[level + 1] = Append(@, quad)],
                  loc |-> [s2 EXCEPT !.gq_per_level_virt[level + 1] = @ + 1],
                  oob |-> o]

\* the body of the second loop of p4est_virtual_new_ext for ghost quad
GhostPass(m, v, s, o, quad) ==
    LET level == m.ghost_level[quad]
        v1 == IF v.level_lists
              THEN [v EXCEPT !.quad_greal_offset[quad] =
                       s.gq_per_level_real[level] +
                       P4EST_CHILDREN * s.gq_per_level_virt[level]]
              ELSE v
        s1 == IF v.level_lists
              THEN [s EXCEPT !.gq_per_level_real[level] = @ + 1]
              ELSE s
    IN  IF v.virtual_gflags[quad] = -1 THEN [vq |-> v1, loc |-> s1, oob |-> o]
        ELSE
        LET v2 == [v1 EXCEPT !.virtual_gflags[quad] = s1.last_virtual_index]
            s2 == [s1 EXCEPT !.last_virtual_index = @ + 1]
        IN  IF ~v.level_lists THEN [vq |-> v2, loc |-> s2, oob |-> o]
            ELSE IF (level + 1) \notin LevelIdx
            THEN [vq |-> v2, loc |-> s2, oob |-> o \cup {"gq_per_level"}]
            ELSE [vq |-> [v2 EXCEPT
                            !.quad_gvirtual_offset[quad] =
                                s2.gq_per_level_real[level + 1] +
                                P4EST_CHILDREN * s2.gq_per_level_virt[level + 1],
                            !.virtual_glevels[level + 1] = Append(@, quad)],
                  loc |-> [s2 EXCEPT !.gq_per_level_virt[level + 1] = @ + 1],
                  oob |-> o]

(***************************************************************************)
(* p4est_virtual_ghost_new: the flag of mirror slot mirror_idx for proc.   *)
(***************************************************************************)
MirrorFlag(m, v, btype, proc, mirror_idx) ==
    LET lq == m.local_num_quadrants
        gq == m.ghost_num_quadrants
        mirror_qid == m.mirror_qid[mirror_idx]
    IN  IF /\ v.virtual_qflags[mirror_qid] # 0
           /\ \E neighbor_idx \in 0 .. (DirCount(btype) - 1) :
                 LET nb == m.neighbors[mirror_qid][neighbor_idx]
                 IN  \E n \in 1 .. Len(nb) :
                        /\ lq <= nb[n].qid
                        /\ nb[n].qid < lq + gq
                        /\ m.ghost_to_proc[nb[n].qid - lq] = proc
                        /\ nb[n].enc < 0
        THEN 1 ELSE 0

\* one iteration of the loop over proc
MirrorProc(m, v, g, proc) ==
    [g EXCEPT !.mirror_proc_virtuals =
        [s \in DOMAIN @ |->
            IF m.mirror_proc_offsets[proc] <= s /\ s < m.mirror_proc_offsets[proc + 1]
            THEN (IF MirrorFlag(m, v, g.btype, proc, s) = 1 THEN 1 ELSE @[s])
            ELSE @[s]]]

VARIABLES forest, rank, mesh, pc, virtual_quads, virtual_ghost, loc, oob,
          debug, call, mem, built_for

vars == << forest, rank, mesh, pc, virtual_quads, virtual_ghost, loc, oob,
           debug, call, mem, built_for >>

\* the state around the builders: the build configuration
\* (P4EST_ENABLE_DEBUG), the call that built the structure at hand,
\* the value last returned by p4est_virtual_memory_used for the structure
\* at hand (-1: not asked), and, for each pair of arguments (btype,
\* compute_level_lists), the structure first returned for it and how often
\* one was returned
caller == << debug, call, mem, built_for >>

NoCall == [fn |-> "none", btype |-> 0, compute_level_lists |-> FALSE]

BuildArgs == Btypes \X BOOLEAN

NoBuild == [vq |-> NullVirtual, times |-> 0]

\* the loops below run only in calls that meet the preconditions, where
\* P4EST_ASSERT never fires and both builds behave alike
CallerInit ==
    /\ debug = TRUE
    /\ call = NoCall
    /\ mem = -1
    /\ built_for = [a \in BuildArgs |-> NoBuild]

Init ==
    /\ forest \in {F \in Forests : IsBalanced(F)}
    /\ rank \in Ranks
    /\ \E withpb \in BOOLEAN : mesh = MeshOf(forest, rank, withpb)
    /\ pc = "idle"
    /\ virtual_quads = NullVirtual
    /\ virtual_ghost = NullVirtualGhost
    /\ loc = NullLocals
    /\ oob = {}
    /\ CallerInit

(***************************************************************************)
(* p4est_virtual_new_ext, one action per loop iteration.                   *)
(***************************************************************************)
\* entry: preconditions hold, structure and counters are allocated
NewExtBegin ==
    /\ pc = "idle"
    /\ \E btype \in Btypes, compute_level_lists \in BOOLEAN :
          /\ btype <= mesh.btype
          /\ virtual_quads' = AllocVirtual(mesh, btype, compute_level_lists)
    /\ loc' = AllocLocals
    /\ pc' = "pass1"
    /\ UNCHANGED << forest, rank, mesh, virtual_ghost, oob >>
    /\ UNCHANGED caller

\* first loop, quadrant routed to has_virtuals_inner
OwnedInner ==
    /\ pc = "pass1"
    /\ loc.quad < virtual_quads.local_num_quadrants
    /\ mesh.has_parallel_boundary /\ mesh.parallel_boundary[loc.quad] = -1
    /\ LET r == ClassifyQuad(mesh, virtual_quads, loc, oob, loc.quad)
       IN  /\ virtual_quads' = r.vq
           /\ loc' = [r.loc EXCEPT !.quad = @ + 1]
           /\ oob' = r.oob
    /\ UNCHANGED << forest, rank, mesh, pc, virtual_ghost >>
    /\ UNCHANGED caller

\* first loop, quadrant routed to has_virtuals_parallel_boundary
OwnedBoundary ==
    /\ pc = "pass1"
    /\ loc.quad < virtual_quads.local_num_quadrants
    /\ ~(mesh.has_parallel_boundary /\ mesh.parallel_boundary[loc.quad] = -1)
    /\ LET r == ClassifyQuad(mesh, virtual_quads, loc, oob, loc.quad)
       IN  /\ virtual_quads' = r.vq
           /\ loc' = [r.loc EXCEPT !.quad = @ + 1]
           /\ oob' = r.oob
    /\ UNCHANGED << forest, rank, mesh, pc, virtual_ghost >>
    /\ UNCHANGED caller

\* first loop done: last_virtual_index = 0, second loop starts
GhostPassBegin ==
    /\ pc = "pass1"
    /\ loc.quad >= virtual_quads.local_num_quadrants
    /\ loc' = [loc EXCEPT !.last_virtual_index = 0, !.quad = 0]
    /\ pc' = "pass2"
    /\ UNCHANGED << forest, rank, mesh, virtual_quads, virtual_ghost, oob >>
    /\ UNCHANGED caller

\* second loop, one ghost
GhostPassStep ==
    /\ pc = "pass2"
    /\ loc.quad < virtual_quads.ghost_num_quadrants
    /\ LET r == GhostPass(mesh, virtual_quads, loc, oob, loc.quad)
       IN  /\ virtual_quads' = r.vq
           /\ loc' = [r.loc EXCEPT !.quad = @ + 1]
           /\ oob' = r.oob
    /\ UNCHANGED << forest, rank, mesh, pc, virtual_ghost >>
    /\ UNCHANGED caller

\* scratch is freed, the structure is returned
NewExtReturn ==
    /\ pc = "pass2"
    /\ loc.quad >= virtual_quads.ghost_num_quadrants
    /\ loc' = NullLocals
    /\ pc' = "built"
    /\ UNCHANGED << forest, rank, mesh, virtual_quads, virtual_ghost, oob >>
    /\ UNCHANGED caller

(***************************************************************************)
(* p4est_virtual_ghost_new, one action per iteration of the proc loop.     *)
(***************************************************************************)
GhostNewBegin ==
    /\ pc = "built"
    /\ \E btype \in Btypes :
          /\ btype <= virtual_quads.btype
          /\ virtual_ghost' =
                [btype |-> btype,
                 mirror_proc_virtuals |->
                     [s \in 0 .. (mesh.mirror_proc_offsets[mesh.mpisize] - 1) |-> 0]]
    /\ loc' = [loc EXCEPT !.proc = 0]
    /\ pc' = "mirrors"
    /\ UNCHANGED << forest, rank, mesh, virtual_quads, oob >>
    /\ UNCHANGED caller

GhostNewProc ==
    /\ pc = "mirrors"
    /\ loc.proc < mesh.mpisize
    /\ virtual_ghost' = MirrorProc(mesh, virtual_quads, virtual_ghost, loc.proc)
    /\ loc' = [loc EXCEPT !.proc = @ + 1]
    /\ UNCHANGED << forest, rank, mesh, pc, virtual_quads, oob >>
    /\ UNCHANGED caller

GhostNewReturn ==
    /\ pc = "mirrors"
    /\ loc.proc >= mesh.mpisize
    /\ loc' = NullLocals
    /\ pc' = "resolved"
    /\ UNCHANGED << forest, rank, mesh, virtual_quads, virtual_ghost, oob >>
    /\ UNCHANGED caller

\* p4est_virtual_ghost_destroy
GhostDestroy ==
    /\ pc = "resolved"
    /\ virtual_ghost' = NullVirtualGhost
    /\ pc' = "built"
    /\ UNCHANGED << forest, rank, mesh, virtual_quads, loc, oob >>
    /\ UNCHANGED caller

\* p4est_virtual_destroy
Destroy ==
    /\ pc = "built"
    /\ virtual_quads' = NullVirtual
    /\ pc' = "idle"
    /\ UNCHANGED << forest, rank, mesh, virtual_ghost, loc, oob >>
    /\ UNCHANGED caller

Next ==
    \/ NewExtBegin
    \/ OwnedInner
    \/ OwnedBoundary
    \/ GhostPassBegin
    \/ GhostPassStep
    \/ NewExtReturn
    \/ GhostNewBegin
    \/ GhostNewProc
    \/ GhostNewReturn
    \/ GhostDestroy
    \/ Destroy

Spec == Init /\ [][Next]_vars

(***************************************************************************)
(* The builder as a function of its inputs: the loops run to completion.   *)
(***************************************************************************)
RECURSIVE OwnedLoop(_, _, _, _, _)
OwnedLoop(m, v, s, o, quad) ==
    IF quad >= v.local_num_quadrants THEN [vq |-> v, loc |-> s, oob |-> o]
    ELSE LET r == ClassifyQuad(m, v, s, o, quad)
         IN  OwnedLoop(m, r.vq, r.loc, r.oob, quad + 1)

RECURSIVE GhostLoop(_, _, _, _, _)
GhostLoop(m, v, s, o, quad) ==
    IF quad >= v.ghost_num_quadrants THEN [vq |-> v, loc |-> s, oob |-> o]
    ELSE LET r == GhostPass(m, v, s, o, quad)
         IN  GhostLoop(m, r.vq, r.loc, r.oob, quad + 1)

p4est_virtual_new_ext(m, btype, compute_level_lists) ==
    LET a == OwnedLoop(m, AllocVirtual(m, btype, compute_level_lists),
                       AllocLocals, {}, 0)
        b == GhostLoop(m, a.vq, [a.loc EXCEPT !.last_virtual_index = 0],
                       a.oob, 0)
    IN  b.vq

(***************************************************************************)
(* Building again: the loops of p4est_virtual_new_ext as above, with the   *)
(* caller keeping the structure first returned for each pair of arguments, *)
(* and a second call made either after p4est_virtual_destroy or while the  *)
(* structure built before is still alive.                                  *)
(***************************************************************************)
\* largest number of leaves of a forest that is built on repeatedly
RebuildMaxQuads == 2
\* returns counted per pair of arguments
MaxBuilds == 2

InitRebuild ==
    /\ forest \in {F \in Forests : IsBalanced(F) /\ F.n <= RebuildMaxQuads}
    /\ rank \in Ranks
    /\ \E withpb \in BOOLEAN : mesh = MeshOf(forest, rank, withpb)
    /\ pc = "idle"
    /\ virtual_quads = NullVirtual
    /\ virtual_ghost = NullVirtualGhost
    /\ loc = NullLocals
    /\ oob = {}
    /\ CallerInit

\* RebuildBegin whose flag arrays keep the entries of the structure built
\* before (allocation without the memset)
RebuildBegin_KeepsFlags ==
    /\ pc = "built"
    /\ \E btype \in Btypes, compute_level_lists \in BOOLEAN :
          /\ btype <= mesh.btype
          /\ virtual_quads' =
                [AllocVirtual(mesh, btype, compute_level_lists) EXCEPT
                    !.virtual_qflags = virtual_quads.virtual_qflags,
                    !.virtual_gflags = virtual_quads.virtual_gflags]
    /\ loc' = AllocLocals
    /\ pc' = "pass1"
    /\ UNCHANGED << forest, rank, mesh, virtual_ghost, oob >>
    /\ UNCHANGED caller

\* entry of p4est_virtual_new_ext while the structure built before is alive
RebuildBegin ==
    /\ pc = "built"
    /\ \E btype \in Btypes, compute_level_lists \in BOOLEAN :
          /\ btype <= mesh.btype
          /\ virtual_quads' = AllocVirtual(mesh, btype, compute_level_lists)
    /\ loc' = AllocLocals
    /\ pc' = "pass1"
    /\ UNCHANGED << forest, rank, mesh, virtual_ghost, oob >>
    /\ UNCHANGED caller

\* the structure is returned and the caller takes note of it
NewExtReturnNoted ==
    /\ pc = "pass2"
    /\ loc.quad >= virtual_quads.ghost_num_quadrants
    /\ loc' = NullLocals
    /\ pc' = "built"
    /\ LET a == << virtual_quads.btype, virtual_quads.level_lists >>
       IN  built_for' =
              [built_for EXCEPT
                  ![a] = [vq |-> IF @.times = 0 THEN virtual_quads ELSE @.vq,
                          times |-> IF @.times < MaxBuilds
                                    THEN @.times + 1 ELSE @.times]]
    /\ UNCHANGED << forest, rank, mesh, virtual_quads, virtual_ghost, oob,
                    debug, call, mem >>

NextRebuild ==
    \/ NewExtBegin
    \/ RebuildBegin
    \/ OwnedInner
    \/ OwnedBoundary
    \/ GhostPassBegin
    \/ GhostPassStep
    \/ NewExtReturnNoted
    \/ Destroy

SpecRebuild == InitRebuild /\ [][NextRebuild]_vars

(***************************************************************************)
(* The loops of the builders on a mesh whose p4est_mesh_get_neighbors may  *)
(* step outside its contract in one place: one list holds the id one past  *)
(* the ghosts, local_num_quadrants + ghost_num_quadrants, or one encoding  *)
(* does not tell the size of the neighbour.                                *)
(***************************************************************************)
\* largest number of leaves of a forest meshed this way
AnyMeshMaxQuads == 2

Encodings == {-1, 0, 8}

\* m with the id one past the ghosts appended to one list of neighbours
OnePastMeshes(m) ==
    { [m EXCEPT !.neighbors[q][d] =
          Append(@, [qid |-> m.local_num_quadrants + m.ghost_num_quadrants,
                     level |-> l,
                     enc |-> Encoding(m.quad_level[q], l)])] :
        q \in 0 .. (m.local_num_quadrants - 1),
        d \in 0 .. (DirCount(m.btype) - 1),
        l \in Levels }

\* m with one encoding replaced
AnyEncodingMeshes(m) ==
    UNION { { [m EXCEPT !.neighbors[q][d][j].enc = e] :
                j \in 1 .. Len(m.neighbors[q][d]), e \in Encodings } :
            q \in 0 .. (m.local_num_quadrants - 1), d \in Dirs }

InitAnyMesh ==
    /\ forest \in {F \in Forests : IsBalanced(F) /\ F.n <= AnyMeshMaxQuads}
    /\ rank \in Ranks
    /\ \E withpb \in BOOLEAN :
          LET m == MeshOf(forest, rank, withpb)
          IN  mesh \in {m} \cup OnePastMeshes(m) \cup AnyEncodingMeshes(m)
    /\ pc = "idle"
    /\ virtual_quads = NullVirtual
    /\ virtual_ghost = NullVirtualGhost
    /\ loc = NullLocals
    /\ oob = {}
    /\ CallerInit

SpecAnyMesh == InitAnyMesh /\ [][Next]_vars

(***************************************************************************)
(* p4est_virtual_memory_used.  Sizes are those of an LP64 build:           *)
(* p4est_locidx_t is int32_t, sc_array_t holds three words and a pointer,  *)
(* p4est_virtual_t an enum, two p4est_locidx_t and eight pointers.         *)
(***************************************************************************)
SizeofLocidx == 4
SizeofScArray == 32
SizeofVirtual == 80

\* sc_array_memory_used (array, 0): the bytes of the body of one list
sc_array_memory_used(array) == SizeofLocidx * Len(array)

RECURSIVE MemLevels(_, _)
MemLevels(v, level) ==
    IF level > P4EST_QMAXLEVEL THEN 0
    ELSE sc_array_memory_used(v.virtual_qlevels[level]) +
         sc_array_memory_used(v.virtual_glevels[level]) +
         MemLevels(v, level + 1)

\* p4est_virtual_memory_used that counts one offset array per side
p4est_virtual_memory_used_OneOffsetPerSide(v) ==
    LET lqz == v.local_num_quadrants
        ngz == v.ghost_num_quadrants
        mem_flags == (lqz + ngz) * SizeofLocidx
        mem_offset == IF v.level_lists
                      THEN (lqz + ngz) * SizeofLocidx ELSE 0
        mem_levels == IF v.level_lists
                      THEN 2 * SizeofScArray * (P4EST_QMAXLEVEL + 1) +
                           MemLevels(v, 0)
                      ELSE 0
    IN  mem_flags + mem_offset + mem_levels + SizeofVirtual

p4est_virtual_memory_used(v) ==
    LET lqz == v.local_num_quadrants
        ngz == v.ghost_num_quadrants
        mem_flags == (lqz + ngz) * SizeofLocidx
        mem_offset == IF v.level_lists
                      THEN 2 * (lqz + ngz) * SizeofLocidx ELSE 0
        mem_levels == IF v.level_lists
                      THEN 2 * SizeofScArray * (P4EST_QMAXLEVEL + 1) +
                           MemLevels(v, 0)
                      ELSE 0
    IN  mem_flags + mem_offset + mem_levels + SizeofVirtual

(***************************************************************************)
(* The public interface, one action per call, for any arguments: the       *)
(* forest need not be balanced, btype need not be a connectivity the       *)
(* builders know, and the build may have P4EST_ENABLE_DEBUG or not.        *)
(***************************************************************************)
\* largest number of leaves of a forest handed to the interface
CallMaxQuads == 2
\* these forests have levels in P4EST_QMAXLEVEL - CallLevelSpan ..
\* P4EST_QMAXLEVEL
CallLevelSpan == 2

AnyForests ==
    UNION { { [n |-> n, owner |-> o, level |-> l, link |-> k, btype |-> bt] :
                o \in {f \in [0 .. (n - 1) -> Ranks] :
                          \A p \in Pairs(n) : f[p[1]] <= f[p[2]]},
                l \in [0 .. (n - 1) ->
                         (P4EST_QMAXLEVEL - CallLevelSpan) .. P4EST_QMAXLEVEL],
                k \in [Pairs(n) -> {NoLink} \cup
                         {d \in ForwardDirs :
                             bt = P4EST_CONNECT_FULL \/ d < P4EST_FACES}] } :
            n \in 0 .. CallMaxQuads, bt \in Btypes }

\* the values of p4est_connect_type_t a caller passes: the two the
\* builders know, one below and one above
AnyBtypes == Btypes \cup {P4EST_CONNECT_FACE - 1, P4EST_CONNECT_FULL + 1}

\* p4est_is_balanced (p4est, btype): 2:1 balance across the faces and,
\* from P4EST_CONNECT_FULL on, across the corners
p4est_is_balanced(F, btype) ==
    \A p \in Pairs(F.n) :
        (F.link[p] # NoLink /\
         (F.link[p] < P4EST_FACES \/ btype >= P4EST_CONNECT_FULL)) =>
            /\ F.level[p[1]] - F.level[p[2]] <= 1
            /\ F.level[p[2]] - F.level[p[1]] <= 1

\* P4EST_ASSERT (c) ends the program when c fails in a build with
\* P4EST_ENABLE_DEBUG and is empty otherwise
AssertFails(dbg, c) == dbg /\ ~c

\* p4est_virtual_new_ext ends in an abort: one of its two assertions, or
\* the default branch of the switch on btype in the classifier called for
\* the first owned quadrant
NewExtAborts(F, m, dbg, btype) ==
    \/ AssertFails(dbg, p4est_is_balanced(F, btype))
    \/ AssertFails(dbg, btype <= m.btype)
    \/ (m.local_num_quadrants > 0 /\ btype \notin Btypes)

\* p4est_virtual_ghost_new ends in an abort: its assertion, or the default
\* branch of its switch on btype
GhostNewAborts(v, dbg, btype) ==
    \/ AssertFails(dbg, btype <= v.btype)
    \/ btype \notin Btypes

RECURSIVE MirrorLoop(_, _, _, _)
MirrorLoop(m, v, g, proc) ==
    IF proc >= m.mpisize THEN g
    ELSE MirrorLoop(m, v, MirrorProc(m, v, g, proc), proc + 1)

\* p4est_virtual_ghost_new as a function of its inputs
p4est_virtual_ghost_new(m, v, btype) ==
    MirrorLoop(m, v,
               [btype |-> btype,
                mirror_proc_virtuals |->
                    [s \in 0 .. (m.mirror_proc_offsets[m.mpisize] - 1) |-> 0]],
               0)

InitCalls ==
    /\ forest \in AnyForests
    /\ rank \in Ranks
    /\ \E withpb \in BOOLEAN : mesh = MeshOf(forest, rank, withpb)
    /\ pc = "idle"
    /\ virtual_quads = NullVirtual
    /\ virtual_ghost = NullVirtualGhost
    /\ loc = NullLocals
    /\ oob = {}
    /\ debug \in BOOLEAN
    /\ call = NoCall
    /\ mem = -1
    /\ built_for = [a \in BuildArgs |-> NoBuild]

\* what a call of p4est_virtual_new_ext leaves behind: the program
\* aborted, or the structure is returned
NewExtOutcome(btype, compute_level_lists) ==
    IF NewExtAborts(forest, mesh, debug, btype)
    THEN [pc |-> "aborted", vq |-> NullVirtual]
    ELSE [pc |-> "built",
          vq |-> p4est_virtual_new_ext(mesh, btype, compute_level_lists)]

\* p4est_virtual_new: p4est_virtual_new_ext with compute_level_lists = 0
VirtualNew ==
    /\ pc = "idle"
    /\ \E btype \in AnyBtypes :
          /\ call' = [fn |-> "p4est_virtual_new", btype |-> btype,
                      compute_level_lists |-> FALSE]
          /\ pc' = NewExtOutcome(btype, FALSE).pc
          /\ virtual_quads' = NewExtOutcome(btype, FALSE).vq
    /\ mem' = -1
    /\ UNCHANGED << forest, rank, mesh, virtual_ghost, loc, oob, debug,
                    built_for >>

\* p4est_virtual_new_ext
VirtualNewExt ==
    /\ pc = "idle"
    /\ \E btype \in AnyBtypes, compute_level_lists \in BOOLEAN :
          /\ call' = [fn |-> "p4est_virtual_new_ext", btype |-> btype,
                      compute_level_lists |-> compute_level_lists]
          /\ pc' = NewExtOutcome(btype, compute_level_lists).pc
          /\ virtual_quads' = NewExtOutcome(btype, compute_level_lists).vq
    /\ mem' = -1
    /\ UNCHANGED << forest, rank, mesh, virtual_ghost, loc, oob, debug,
                    built_for >>

\* p4est_virtual_memory_used
VirtualMemoryUsed ==
    /\ pc \in {"built", "resolved"}
    /\ mem' = p4est_virtual_memory_used(virtual_quads)
    /\ UNCHANGED << forest, rank, mesh, pc, virtual_quads, virtual_ghost,
                    loc, oob, debug, call, built_for >>

\* a whole call of p4est_virtual_ghost_new
VirtualGhostNew ==
    /\ pc = "built"
    /\ \E btype \in AnyBtypes :
          IF GhostNewAborts(virtual_quads, debug, btype)
          THEN /\ pc' = "aborted"
               /\ virtual_ghost' = NullVirtualGhost
          ELSE /\ pc' = "resolved"
               /\ virtual_ghost' =
                     p4est_virtual_ghost_new(mesh, virtual_quads, btype)
    /\ UNCHANGED << forest, rank, mesh, virtual_quads, loc, oob, debug, call,
                    mem, built_for >>

\* p4est_virtual_ghost_destroy
VirtualGhostDestroy ==
    /\ pc = "resolved"
    /\ virtual_ghost' = NullVirtualGhost
    /\ pc' = "built"
    /\ UNCHANGED << forest, rank, mesh, virtual_quads, loc, oob, debug, call,
                    mem, built_for >>

\* p4est_virtual_destroy; the caller forgets what it knew of the structure
VirtualDestroy ==
    /\ pc = "built"
    /\ virtual_quads' = NullVirtual
    /\ pc' = "idle"
    /\ call' = NoCall
    /\ mem' = -1
    /\ UNCHANGED << forest, rank, mesh, virtual_ghost, loc, oob, debug,
                    built_for >>

NextCalls ==
    \/ VirtualNew
    \/ VirtualNewExt
    \/ VirtualMemoryUsed
    \/ VirtualGhostNew
    \/ VirtualGhostDestroy
    \/ VirtualDestroy

SpecCalls == InitCalls /\ [][NextCalls]_vars

(***************************************************************************)
(* Vocabulary of the properties.                                           *)
(***************************************************************************)
\* p4est_virtual_new_ext has returned and the structure is alive
Returned == pc \in {"built", "mirrors", "resolved"}

OwnedIds == 0 .. (mesh.local_num_quadrants - 1)

GhostIds == 0 .. (mesh.ghost_num_quadrants - 1)

\* all neighbours of owned q in the directions of connectivity bt
NeighborSet(q, bt) ==
    UNION {SeqRange(mesh.neighbors[q][d]) : d \in 0 .. (DirCount(bt) - 1)}

\* owned q is routed through has_virtuals_inner
InteriorMode(q) == mesh.has_parallel_boundary /\ mesh.parallel_boundary[q] = -1

HasFinerNeighbor(q, bt) ==
    \E n \in NeighborSet(q, bt) : n.level > mesh.quad_level[q]

\* ghost g is a neighbour of some owned element finer than g
CoarserThanOwnedNeighbor(g, bt) ==
    \E q \in OwnedIds : \E n \in NeighborSet(q, bt) :
        /\ n.qid = mesh.local_num_quadrants + g
        /\ mesh.ghost_level[g] < mesh.quad_level[q]

(***************************************************************************)
(* C1: once p4est_virtual_new_ext has returned, an owned element has       *)
(* virtual_qflags >= 0 exactly when one of its neighbours in the           *)
(* directions of btype is strictly finer, and -1 otherwise, in interior    *)
(* mode and in boundary mode alike.                                        *)
(***************************************************************************)
C1_QflagsIffFinerNeighbor ==
    Returned =>
        \A q \in OwnedIds :
            IF HasFinerNeighbor(q, virtual_quads.btype)
            THEN virtual_quads.virtual_qflags[q] >= 0
            ELSE virtual_quads.virtual_qflags[q] = -1

\* an interior-mode host, a boundary-mode element left unflagged although it
\* has a same-level or coarser neighbour, and both outcomes in one structure
C1_Witness ==
    /\ Returned
    /\ \E q \in OwnedIds :
          /\ InteriorMode(q)
          /\ HasFinerNeighbor(q, virtual_quads.btype)
          /\ virtual_quads.virtual_qflags[q] >= 0
    /\ \E q \in OwnedIds :
          /\ ~InteriorMode(q)
          /\ NeighborSet(q, virtual_quads.btype) # {}
          /\ virtual_quads.virtual_qflags[q] = -1

(***************************************************************************)
(* C2: once p4est_virtual_new_ext has returned, a ghost has                *)
(* virtual_gflags >= 0 exactly when it is a neighbour, in a direction of   *)
(* btype, of an owned element strictly finer than the ghost.               *)
(***************************************************************************)
C2_GflagsIffCoarserGhost ==
    Returned =>
        \A g \in GhostIds :
            virtual_quads.virtual_gflags[g] >= 0
                <=> CoarserThanOwnedNeighbor(g, virtual_quads.btype)

\* a flagged ghost beside an unflagged one
C2_Witness ==
    /\ Returned
    /\ \E g \in GhostIds :
          /\ CoarserThanOwnedNeighbor(g, virtual_quads.btype)
          /\ virtual_quads.virtual_gflags[g] >= 0
    /\ \E g \in GhostIds : virtual_quads.virtual_gflags[g] = -1

(***************************************************************************)
(* Vocabulary of the mirror properties.                                    *)
(***************************************************************************)
\* the mirror slots sent to rank p
SlotsOf(p) ==
    mesh.mirror_proc_offsets[p] .. (mesh.mirror_proc_offsets[p + 1] - 1)

\* the element of slot s has a half-sized ghost neighbour owned by rank p
\* in a direction of connectivity bt
HalfSizedGhostOn(s, p, bt) ==
    \E n \in NeighborSet(mesh.mirror_qid[s], bt) :
        /\ mesh.local_num_quadrants <= n.qid
        /\ n.qid < mesh.local_num_quadrants + mesh.ghost_num_quadrants
        /\ mesh.ghost_to_proc[n.qid - mesh.local_num_quadrants] = p
        /\ n.enc < 0

\* the structure rank p builds from its own view of the same forest
PeerVirtual(p, withpb) ==
    p4est_virtual_new_ext(MeshOf(forest, p, withpb), virtual_quads.btype,
                          virtual_quads.level_lists)

\* the ghost index on rank p of the element in mirror slot s
PeerGhostOf(s, p) ==
    IndexOf(GhostsOf(forest, p), OwnedOf(forest, rank)[mesh.mirror_qid[s] + 1])

(***************************************************************************)
(* C3: once p4est_virtual_ghost_new has returned, mirror_proc_virtuals[s]  *)
(* of a slot s sent to rank p is 1 exactly when the slot's element hosts   *)
(* virtuals (virtual_qflags >= 0, the value 0 included) and has a ghost    *)
(* neighbour owned by p with a negative encoding; it is 0 otherwise.       *)
(***************************************************************************)
C3_MirrorFlagIffHostWithHalfSizedGhost ==
    pc = "resolved" =>
        \A p \in 0 .. (mesh.mpisize - 1) : \A s \in SlotsOf(p) :
            virtual_ghost.mirror_proc_virtuals[s] =
                IF /\ virtual_quads.virtual_qflags[mesh.mirror_qid[s]] >= 0
                   /\ HalfSizedGhostOn(s, p, virtual_ghost.btype)
                THEN 1 ELSE 0

(***************************************************************************)
(* C4: when both ranks build with the same btype and the mirrors are       *)
(* resolved with that btype, the flag of a mirror slot sent to rank p is 1 *)
(* exactly when rank p places virtuals on the ghost that is this element   *)
(* (virtual_gflags >= 0 on p).                                             *)
(***************************************************************************)
C4_SenderAgreesWithReceiver ==
    (pc = "resolved" /\ virtual_ghost.btype = virtual_quads.btype) =>
        \A p \in 0 .. (mesh.mpisize - 1) : \A s \in SlotsOf(p) :
            \A withpb \in BOOLEAN :
                virtual_ghost.mirror_proc_virtuals[s] = 1
                    <=> PeerVirtual(p, withpb).virtual_gflags[PeerGhostOf(s, p)] >= 0

(***************************************************************************)
(* Vocabulary of the offset properties.                                    *)
(***************************************************************************)
IsHost(q) == virtual_quads.virtual_qflags[q] >= 0

IsFlaggedGhost(g) == virtual_quads.virtual_gflags[g] >= 0

\* owned elements before q at level l, and hosts before q at level l
OwnedBefore(q, l) ==
    Cardinality({q2 \in OwnedIds : q2 < q /\ mesh.quad_level[q2] = l})

HostsBefore(q, l) ==
    Cardinality({q2 \in OwnedIds :
                    q2 < q /\ mesh.quad_level[q2] = l /\ IsHost(q2)})

GhostsBefore(g, l) ==
    Cardinality({g2 \in GhostIds : g2 < g /\ mesh.ghost_level[g2] = l})

FlaggedGhostsBefore(g, l) ==
    Cardinality({g2 \in GhostIds :
                    g2 < g /\ mesh.ghost_level[g2] = l /\ IsFlaggedGhost(g2)})

\* the structure built from the same inputs with every element in
\* boundary mode (mesh.parallel_boundary absent)
BoundaryOnlyVirtual ==
    p4est_virtual_new_ext([mesh EXCEPT !.has_parallel_boundary = FALSE],
                          virtual_quads.btype, virtual_quads.level_lists)

(***************************************************************************)
(* C5: with mesh.parallel_boundary present the builder returns the same    *)
(* virtual_qflags (values included) as with every element in boundary      *)
(* mode and, with level lists, the same quad_qreal_offset,                 *)
(* quad_qvirtual_offset and virtual_qlevels; virtual_gflags differ at most *)
(* for ghosts that neighbour an element routed through interior mode.      *)
(***************************************************************************)
C5_InteriorModeEquivalence ==
    (Returned /\ mesh.has_parallel_boundary) =>
        LET alt == BoundaryOnlyVirtual
        IN  /\ virtual_quads.virtual_qflags = alt.virtual_qflags
            /\ virtual_quads.level_lists =>
                  /\ virtual_quads.quad_qreal_offset = alt.quad_qreal_offset
                  /\ virtual_quads.quad_qvirtual_offset = alt.quad_qvirtual_offset
                  /\ virtual_quads.virtual_qlevels = alt.virtual_qlevels
            /\ \A g \in GhostIds :
                  virtual_quads.virtual_gflags[g] # alt.virtual_gflags[g] =>
                      \E q \in OwnedIds :
                          /\ InteriorMode(q)
                          /\ \E n \in NeighborSet(q, P4EST_CONNECT_FULL) :
                                n.qid = mesh.local_num_quadrants + g

\* level lists are on, an interior-mode element is a host, and a later
\* element lives at the host's virtual level, so that its offset counts
\* the host's block of children
C5_Witness ==
    /\ Returned /\ mesh.has_parallel_boundary /\ virtual_quads.level_lists
    /\ \E q \in OwnedIds :
          /\ InteriorMode(q) /\ IsHost(q)
          /\ \E q2 \in OwnedIds :
                q < q2 /\ mesh.quad_level[q2] = mesh.quad_level[q] + 1

(***************************************************************************)
(* C6: with level lists, quad_qreal_offset[q] is the number of owned       *)
(* elements before q at q's level plus CHILDREN times the number of hosts  *)
(* before q whose virtual level (their level + 1) is q's level.            *)
(***************************************************************************)
C6_QrealOffsetFormula ==
    (Returned /\ virtual_quads.level_lists) =>
        \A q \in OwnedIds :
            virtual_quads.quad_qreal_offset[q] =
                OwnedBefore(q, mesh.quad_level[q]) +
                P4EST_CHILDREN * HostsBefore(q, mesh.quad_level[q] - 1)

\* an element preceded by one element of its level and by one host of the
\* level below
C6_Witness ==
    /\ Returned /\ virtual_quads.level_lists
    /\ \E q \in OwnedIds :
          /\ OwnedBefore(q, mesh.quad_level[q]) = 1
          /\ HostsBefore(q, mesh.quad_level[q] - 1) = 1
          /\ virtual_quads.quad_qreal_offset[q] = 1 + P4EST_CHILDREN

(***************************************************************************)
(* C7: with level lists, quad_qvirtual_offset[q] of a host q at level l is *)
(* the number of owned elements before q at level l+1 plus CHILDREN times  *)
(* the number of hosts before q at level l; q itself is counted in neither.*)
(***************************************************************************)
C7_QvirtualOffsetFormula ==
    (Returned /\ virtual_quads.level_lists) =>
        \A q \in OwnedIds :
            IsHost(q) =>
                virtual_quads.quad_qvirtual_offset[q] =
                    OwnedBefore(q, mesh.quad_level[q] + 1) +
                    P4EST_CHILDREN * HostsBefore(q, mesh.quad_level[q])

\* a host preceded by one element of the next level and one host of its own
C7_Witness ==
    /\ Returned /\ virtual_quads.level_lists
    /\ \E q \in OwnedIds :
          /\ IsHost(q)
          /\ OwnedBefore(q, mesh.quad_level[q] + 1) = 1
          /\ HostsBefore(q, mesh.quad_level[q]) = 1
          /\ virtual_quads.quad_qvirtual_offset[q] = 1 + P4EST_CHILDREN

(***************************************************************************)
(* C8: with level lists, the ghost offsets follow the same policy with     *)
(* counters of their own: quad_greal_offset[g] is the number of ghosts     *)
(* before g at g's level plus CHILDREN times the number of flagged ghosts  *)
(* before g one level below; quad_gvirtual_offset[g] of a flagged ghost is *)
(* the number of ghosts before g one level above plus CHILDREN times the   *)
(* number of flagged ghosts before g at g's level.  Owned elements count   *)
(* in neither.                                                             *)
(***************************************************************************)
C8_GhostOffsetFormula ==
    (Returned /\ virtual_quads.level_lists) =>
        \A g \in GhostIds :
            /\ virtual_quads.quad_greal_offset[g] =
                  GhostsBefore(g, mesh.ghost_level[g]) +
                  P4EST_CHILDREN * FlaggedGhostsBefore(g, mesh.ghost_level[g] - 1)
            /\ IsFlaggedGhost(g) =>
                  virtual_quads.quad_gvirtual_offset[g] =
                      GhostsBefore(g, mesh.ghost_level[g] + 1) +
                      P4EST_CHILDREN * FlaggedGhostsBefore(g, mesh.ghost_level[g])

\* a ghost that follows a flagged ghost of the level below, while an owned
\* element of the ghost's level has advanced the owned counters
C8_Witness ==
    /\ Returned /\ virtual_quads.level_lists
    /\ \E g \in GhostIds :
          /\ FlaggedGhostsBefore(g, mesh.ghost_level[g] - 1) = 1
          /\ virtual_quads.quad_greal_offset[g] = P4EST_CHILDREN
          /\ \E q \in OwnedIds : mesh.quad_level[q] = mesh.ghost_level[g]
    /\ \E g \in GhostIds :
          IsFlaggedGhost(g) /\ virtual_quads.quad_gvirtual_offset[g] >= 0

(***************************************************************************)
(* C9: with level lists, virtual_qlevels[l] is exactly the ascending       *)
(* sequence of the hosts of level l-1 and virtual_glevels[l] the ascending *)
(* sequence of the flagged ghosts of level l-1, for every l in             *)
(* 0..P4EST_QMAXLEVEL; the lists of level 0 are empty and the lengths add  *)
(* up to the number of hosts (flagged ghosts).                             *)
(***************************************************************************)
C9_LevelListsFaithful ==
    (Returned /\ virtual_quads.level_lists) =>
        /\ \A l \in LevelIdx :
              /\ virtual_quads.virtual_qlevels[l] =
                    SortedSeq({q \in OwnedIds :
                                 mesh.quad_level[q] = l - 1 /\ IsHost(q)})
              /\ virtual_quads.virtual_glevels[l] =
                    SortedSeq({g \in GhostIds :
                                 mesh.ghost_level[g] = l - 1 /\ IsFlaggedGhost(g)})
        /\ virtual_quads.virtual_qlevels[0] = << >>
        /\ virtual_quads.virtual_glevels[0] = << >>
        /\ SumOver([l \in LevelIdx |-> Len(virtual_quads.virtual_qlevels[l])],
                   LevelIdx)
              = Cardinality({q \in OwnedIds : IsHost(q)})
        /\ SumOver([l \in LevelIdx |-> Len(virtual_quads.virtual_glevels[l])],
                   LevelIdx)
              = Cardinality({g \in GhostIds : IsFlaggedGhost(g)})

\* a list of two hosts whose ids have a non-listed element between them
C9_Witness ==
    /\ Returned /\ virtual_quads.level_lists
    /\ \E l \in LevelIdx :
          /\ Len(virtual_quads.virtual_qlevels[l]) = 2
          /\ \E q \in OwnedIds :
                /\ virtual_quads.virtual_qlevels[l][1] < q
                /\ q < virtual_quads.virtual_qlevels[l][2]

(***************************************************************************)
(* C10: once p4est_virtual_new_ext has returned, every entry of            *)
(* virtual_qflags and virtual_gflags is -1 or the dense index of the       *)
(* element among the hosts of its side, counted in ascending id order; the *)
(* marker written into virtual_gflags by the first loop does not survive.  *)
(***************************************************************************)
C10_DenseHostIndices ==
    Returned =>
        /\ \A q \in OwnedIds :
              \/ virtual_quads.virtual_qflags[q] = -1
              \/ virtual_quads.virtual_qflags[q] =
                    Cardinality({q2 \in OwnedIds : q2 < q /\ IsHost(q2)})
        /\ \A g \in GhostIds :
              \/ virtual_quads.virtual_gflags[g] = -1
              \/ virtual_quads.virtual_gflags[g] =
                    Cardinality({g2 \in GhostIds : g2 < g /\ IsFlaggedGhost(g2)})

\* two marked ghosts, renumbered 0 and 1, beside a host
C10_Witness ==
    /\ Returned
    /\ \E g \in GhostIds, g2 \in GhostIds :
          /\ g < g2
          /\ virtual_quads.virtual_gflags[g] = 0
          /\ virtual_quads.virtual_gflags[g2] = 1

(***************************************************************************)
(* Vocabulary of the interface properties.                                 *)
(***************************************************************************)
\* a structure is in the caller's hands
Alive == pc \in {"built", "resolved"}

\* the bytes of everything the structure v owns, array by array
OwnedBytes(v) ==
    SizeofVirtual +
    SizeofLocidx * (Cardinality(DOMAIN v.virtual_qflags) +
                    Cardinality(DOMAIN v.virtual_gflags)) +
    SizeofLocidx * (Cardinality(DOMAIN v.quad_qreal_offset) +
                    Cardinality(DOMAIN v.quad_qvirtual_offset) +
                    Cardinality(DOMAIN v.quad_greal_offset) +
                    Cardinality(DOMAIN v.quad_gvirtual_offset)) +
    SizeofScArray * (Cardinality(DOMAIN v.virtual_qlevels) +
                     Cardinality(DOMAIN v.virtual_glevels)) +
    SizeofLocidx *
        (SumOver([l \in DOMAIN v.virtual_qlevels |-> Len(v.virtual_qlevels[l])],
                 DOMAIN v.virtual_qlevels) +
         SumOver([l \in DOMAIN v.virtual_glevels |-> Len(v.virtual_glevels[l])],
                 DOMAIN v.virtual_glevels))

\* the number of entries of all per-level lists of v
ListEntries(v) ==
    SumOver([l \in LevelIdx |->
                Len(v.virtual_qlevels[l]) + Len(v.virtual_glevels[l])],
            LevelIdx)

(***************************************************************************)
(* C11: the value returned by p4est_virtual_memory_used is the sum of the  *)
(* sizes of everything the structure owns: without level lists the header  *)
(* and L+G index entries; with level lists also 2*(L+G) index entries of   *)
(* offsets, 2*(P4EST_QMAXLEVEL+1) list headers and the bodies of all       *)
(* per-level lists.                                                        *)
(***************************************************************************)
C11_MemoryUsedIsSumOfOwned ==
    (Alive /\ mem # -1) =>
        LET lg == mesh.local_num_quadrants + mesh.ghost_num_quadrants
        IN  /\ mem = OwnedBytes(virtual_quads)
            /\ mem = IF virtual_quads.level_lists
                     THEN SizeofVirtual + lg * SizeofLocidx +
                          2 * lg * SizeofLocidx +
                          2 * (P4EST_QMAXLEVEL + 1) * SizeofScArray +
                          SizeofLocidx * ListEntries(virtual_quads)
                     ELSE SizeofVirtual + lg * SizeofLocidx

\* memory is asked of a structure with level lists, owned and ghost
\* elements and a list that has a body
C11_Witness ==
    /\ Alive /\ mem # -1
    /\ virtual_quads.level_lists
    /\ mesh.local_num_quadrants > 0 /\ mesh.ghost_num_quadrants > 0
    /\ ListEntries(virtual_quads) > 0

(***************************************************************************)
(* C12: building again from the same forest, ghost layer, mesh, btype and  *)
(* compute_level_lists, after p4est_virtual_destroy or without it, returns *)
(* a structure equal, entry by entry, to the one first returned for these  *)
(* arguments: flags, the four offset arrays and all per-level lists.       *)
(***************************************************************************)
C12_RebuildIsIdempotent ==
    pc = "built" =>
        LET first ==
                built_for[<< virtual_quads.btype, virtual_quads.level_lists >>].vq
        IN  /\ virtual_quads.virtual_qflags = first.virtual_qflags
            /\ virtual_quads.virtual_gflags = first.virtual_gflags
            /\ virtual_quads.quad_qreal_offset = first.quad_qreal_offset
            /\ virtual_quads.quad_qvirtual_offset = first.quad_qvirtual_offset
            /\ virtual_quads.quad_greal_offset = first.quad_greal_offset
            /\ virtual_quads.quad_gvirtual_offset = first.quad_gvirtual_offset
            /\ virtual_quads.virtual_qlevels = first.virtual_qlevels
            /\ virtual_quads.virtual_glevels = first.virtual_glevels

\* a structure with level lists is returned a second time for its
\* arguments, after a structure with more hosts was built for others
C12_Witness ==
    /\ pc = "built"
    /\ virtual_quads.level_lists
    /\ built_for[<< virtual_quads.btype, TRUE >>].times >= 2
    /\ \E a \in BuildArgs :
          /\ built_for[a].times >= 1
          /\ \E q \in OwnedIds :
                /\ built_for[a].vq.virtual_qflags[q] >= 0
                /\ virtual_quads.virtual_qflags[q] = -1

(***************************************************************************)
(* C13: a structure returned by p4est_virtual_new has no offset arrays and *)
(* no per-level lists, and its virtual_qflags and virtual_gflags equal,    *)
(* entry by entry, those p4est_virtual_new_ext returns for the same inputs *)
(* with compute_level_lists = 1.                                           *)
(***************************************************************************)
C13_NewIsNewExtWithoutLists ==
    (Alive /\ call.fn = "p4est_virtual_new") =>
        LET with_lists == p4est_virtual_new_ext(mesh, virtual_quads.btype, TRUE)
        IN  /\ ~virtual_quads.level_lists
            /\ virtual_quads.quad_qreal_offset = << >>
            /\ virtual_quads.quad_qvirtual_offset = << >>
            /\ virtual_quads.quad_greal_offset = << >>
            /\ virtual_quads.quad_gvirtual_offset = << >>
            /\ virtual_quads.virtual_qlevels = << >>
            /\ virtual_quads.virtual_glevels = << >>
            /\ with_lists.level_lists
            /\ virtual_quads.virtual_qflags = with_lists.virtual_qflags
            /\ virtual_quads.virtual_gflags = with_lists.virtual_gflags

\* p4est_virtual_new has returned a structure with a host beside a ghost
C13_Witness ==
    /\ Alive /\ call.fn = "p4est_virtual_new"
    /\ mesh.ghost_num_quadrants > 0
    /\ \E q \in OwnedIds : virtual_quads.virtual_qflags[q] >= 0

\* the arguments of the builder call at hand break one of its preconditions
BreaksPrecondition ==
    /\ call.fn \in {"p4est_virtual_new", "p4est_virtual_new_ext"}
    /\ \/ ~p4est_is_balanced(forest, call.btype)
       \/ call.btype > mesh.btype
       \/ call.btype \notin Btypes

(***************************************************************************)
(* C14: a call of the builder with a forest that is not 2:1 balanced under *)
(* btype, with btype > mesh.btype or with a btype that is not one of the   *)
(* supported connectivities ends in an abort and hands no structure to the *)
(* caller, whatever the number of owned elements, L = 0 included.          *)
(***************************************************************************)
C14_PreconditionViolationsAreFatal ==
    BreaksPrecondition => (pc = "aborted" /\ virtual_quads = NullVirtual)

\* the number of mirror slots, mirror_proc_offsets[mpisize]
MirrorCount == mesh.mirror_proc_offsets[mesh.mpisize]

C16_NoVirtualsSlotStaysZero ==
    pc \in {"mirrors", "resolved"} =>
        \A s \in 0 .. (MirrorCount - 1) :
            virtual_quads.virtual_qflags[mesh.mirror_qid[s]] = -1 =>
                virtual_ghost.mirror_proc_virtuals[s] = 0

(***************************************************************************)
(* C17: the first loop writes virtual_gflags[i] only for 0 <= i < G: a     *)
(* neighbour id outside [L, L+G), the one-past value L+G in particular,    *)
(* causes no write, even when the neighbour is coarser than the element.   *)
(***************************************************************************)
C17_GflagsWritesInRange == "virtual_gflags" \notin oob

(***************************************************************************)
(* C18: with all levels in 0..P4EST_QMAXLEVEL, every index into the        *)
(* per-level counters and into virtual_qlevels / virtual_glevels used by   *)
(* the two loops lies in 0..P4EST_QMAXLEVEL; the accesses at level + 1     *)
(* made for a host or a marked ghost never reach P4EST_QMAXLEVEL + 1.      *)
(***************************************************************************)
C18_PerLevelIndexInRange ==
    pc # "idle" =>
        /\ \A q \in OwnedIds : mesh.quad_level[q] \in LevelIdx
        /\ \A g \in GhostIds : mesh.ghost_level[g] \in LevelIdx
        /\ "lq_per_level" \notin oob
        /\ "gq_per_level" \notin oob
        /\ \A q \in OwnedIds :
              virtual_quads.virtual_qflags[q] # -1 =>
                  mesh.quad_level[q] + 1 \in LevelIdx
        /\ \A g \in GhostIds :
              virtual_quads.virtual_gflags[g] # -1 =>
                  mesh.ghost_level[g] + 1 \in LevelIdx

\* both loops have used the last index, P4EST_QMAXLEVEL, beside a ghost
\* of level P4EST_QMAXLEVEL that is not marked
C18_Witness ==
    /\ Returned /\ virtual_quads.level_lists
    /\ virtual_quads.virtual_qlevels[P4EST_QMAXLEVEL] # << >>
    /\ virtual_quads.virtual_glevels[P4EST_QMAXLEVEL] # << >>
    /\ \E q \in OwnedIds : mesh.quad_level[q] = P4EST_QMAXLEVEL

(***************************************************************************)
(* Vocabulary of the layout properties: the slots of level l taken on the  *)
(* owned side and on the ghost side.                                       *)
(***************************************************************************)
\* the block of P4EST_CHILDREN slots that starts at offset
Block(offset) == offset .. (offset + P4EST_CHILDREN - 1)

OwnedAt(l) == {q \in OwnedIds : mesh.quad_level[q] = l}

HostsAt(l) == {q \in OwnedIds : mesh.quad_level[q] = l /\ IsHost(q)}

GhostsAt(l) == {g \in GhostIds : mesh.ghost_level[g] = l}

FlaggedGhostsAt(l) == {g \in GhostIds : mesh.ghost_level[g] = l /\ IsFlaggedGhost(g)}

\* real is the offset array of the elements, virt that of the hosts; the
\* elements at of level l take one slot each, the hosts of level l - 1 a
\* block each: no two overlap, together they fill 0 .. R + CHILDREN * V - 1,
\* and slots grow with the id
DenseLayout(real, virt, at, hosts) ==
    LET slots == {real[q] : q \in at} \cup
                 UNION {Block(virt[h]) : h \in hosts}
    IN  /\ \A q1 \in at, q2 \in at : q1 # q2 => real[q1] # real[q2]
        /\ \A h1 \in hosts, h2 \in hosts :
              h1 # h2 => Block(virt[h1]) \cap Block(virt[h2]) = {}
        /\ \A q \in at, h \in hosts : real[q] \notin Block(virt[h])
        /\ slots = 0 .. (Cardinality(at) + P4EST_CHILDREN * Cardinality(hosts) - 1)
        /\ \A q1 \in at, q2 \in at : q1 < q2 => real[q1] < real[q2]
        /\ \A h1 \in hosts, h2 \in hosts : h1 < h2 => virt[h1] < virt[h2]
        /\ \A q \in at, h \in hosts : (q < h) <=> (real[q] < virt[h])

(***************************************************************************)
(* C19: with level lists, for every level l the slots quad_qreal_offset[q] *)
(* of the owned elements of level l and the blocks of CHILDREN slots from  *)
(* quad_qvirtual_offset[h] of the hosts h of level l - 1 are pairwise      *)
(* disjoint, cover exactly 0 .. R_l + CHILDREN * V_l - 1 and are assigned  *)
(* in ascending id order; the same holds of the ghosts and their offsets.  *)
(***************************************************************************)
C19_DenseCollisionFreeLayout ==
    (Returned /\ virtual_quads.level_lists) =>
        \A l \in LevelIdx :
            /\ DenseLayout(virtual_quads.quad_qreal_offset,
                           virtual_quads.quad_qvirtual_offset,
                           OwnedAt(l), HostsAt(l - 1))
            /\ DenseLayout(virtual_quads.quad_greal_offset,
                           virtual_quads.quad_gvirtual_offset,
                           GhostsAt(l), FlaggedGhostsAt(l - 1))

\* a level on which an owned element follows the block of a host, while the
\* ghost side lays out the block of a marked ghost
C19_Witness ==
    /\ Returned /\ virtual_quads.level_lists
    /\ \E l \in LevelIdx : \E h \in HostsAt(l - 1), q \in OwnedAt(l) :
          h < q /\ virtual_quads.quad_qreal_offset[q] >= P4EST_CHILDREN
    /\ \E l \in LevelIdx : \E h \in FlaggedGhostsAt(l - 1) :
          Block(virtual_quads.quad_gvirtual_offset[h]) = 0 .. (P4EST_CHILDREN - 1)

\* no two leaves of the forest differ in level
NoLevelDifferences ==
    \A a \in 0 .. (forest.n - 1), b \in 0 .. (forest.n - 1) :
        forest.level[a] = forest.level[b]

(***************************************************************************)
(* C20: with level lists, after construction every real offset is set      *)
(* (>= 0) for owned and ghost quadrants, a virtual offset is -1 exactly    *)
(* where the flag is -1 on both sides, and on a forest without level       *)
(* differences all flags and virtual offsets are -1 and every per-level    *)
(* list is empty.                                                          *)
(***************************************************************************)
C20_OffsetSentinelConsistency ==
    (Returned /\ virtual_quads.level_lists) =>
        /\ \A q \in OwnedIds :
              /\ virtual_quads.quad_qreal_offset[q] >= 0
              /\ (virtual_quads.quad_qvirtual_offset[q] = -1) <=>
                     (virtual_quads.virtual_qflags[q] = -1)
        /\ \A g \in GhostIds :
              /\ virtual_quads.quad_greal_offset[g] >= 0
              /\ (virtual_quads.quad_gvirtual_offset[g] = -1) <=>
                     (virtual_quads.virtual_gflags[g] = -1)
        /\ NoLevelDifferences =>
              /\ \A q \in OwnedIds :
                    /\ virtual_quads.virtual_qflags[q] = -1
                    /\ virtual_quads.quad_qvirtual_offset[q] = -1
              /\ \A g \in GhostIds :
                    /\ virtual_quads.virtual_gflags[g] = -1
                    /\ virtual_quads.quad_gvirtual_offset[g] = -1
              /\ \A l \in LevelIdx :
                    /\ virtual_quads.virtual_qlevels[l] = << >>
                    /\ virtual_quads.virtual_glevels[l] = << >>

\* a built structure with a host, a plain owned quadrant and a marked ghost
C20_Witness ==
    /\ Returned /\ virtual_quads.level_lists
    /\ \E q \in OwnedIds : virtual_quads.virtual_qflags[q] # -1
    /\ \E q \in OwnedIds : virtual_quads.virtual_qflags[q] = -1
    /\ \E g \in GhostIds : virtual_quads.virtual_gflags[g] # -1

\* a built structure on a forest without level differences, with owned
\* and ghost quadrants
C20_WitnessUniform ==
    /\ Returned /\ virtual_quads.level_lists
    /\ NoLevelDifferences
    /\ OwnedIds # {} /\ GhostIds # {}

=============================================================================
